---------------------------- MODULE Spec2Model ----------------------------
(***************************************************************************)
(* Supermart grocery dashboard (src/app.py): the data frame loaded at      *)
(* start-up and the four Dash callbacks that read it.                      *)
(*                                                                         *)
(* A data frame is a sequence of rows; a row is a function from column     *)
(* names to values, so df[i]["Sales"] is a cell and Column(df, "Sales") a  *)
(* column.  Amounts are integers.  A timestamp is the integer              *)
(* 100 * mo + day, where mo = 12 * year + (month - 1) counts calendar      *)
(* months, so that the order of timestamps is the order of integers.       *)
(* A quotient of two amounts (a float in the program) is kept exact as a   *)
(* reduced pair <<n, d>> with d > 0; <<1, 0>>, <<-1, 0>> and <<0, 0>> are  *)
(* the floats inf, -inf and NaN that a pandas division by zero yields.     *)
(* Chart construction (plotly) is outside the source: a figure is modelled *)
(* by the title and the data handed to it.                                 *)
(***************************************************************************)
EXTENDS Integers, Sequences, FiniteSets, TLC

VARIABLES df, df0, last

vars == <<df, df0, last>>

-----------------------------------------------------------------------------
(* Bounds and domains of the input file                                     *)

\* Longest run of free rows that follows the (optional) catalogue rows.
MaxRows == 2

\* head(10) of the sub-category ranking.
TopN == 10

\* pd.to_datetime(None): the not-a-time value, unequal and unordered to all.
NaT == -1

\* Column domains, each in the sorted order a groupby puts its keys in.
Regions == <<"East", "West">>

Categories == <<"Bakery", "Beverages", "Snacks">>

SubCategories == <<"Biscuits", "Cakes", "Chocolates", "Cookies">>

OrderIDs == <<"OD1", "OD2", "OD3", "OD4", "OD5">>

-----------------------------------------------------------------------------
(* Arithmetic helpers                                                       *)

Abs(x) == IF x < 0 THEN -x ELSE x

Sign(x) == IF x < 0 THEN -1 ELSE IF x > 0 THEN 1 ELSE 0

Min(a, b) == IF a <= b THEN a ELSE b

RECURSIVE GCD(_, _)
GCD(a, b) == IF b = 0 THEN a ELSE GCD(b, a % b)

\* (p / s) * 100 in floating point, kept exact.
Pct(p, s) ==
    IF s = 0 THEN <<Sign(p), 0>>
    ELSE LET n == 100 * p * Sign(s)
             d == Abs(s)
             g == GCD(Abs(n), d)
         IN  <<n \div g, d \div g>>

\* The literal 0 of the guarded margin.
Zero == <<0, 1>>

RECURSIVE Sum(_)
Sum(s) == IF s = <<>> THEN 0 ELSE Head(s) + Sum(Tail(s))

\* df[c]
Column(d, c) == [i \in DOMAIN d |-> d[i][c]]

\* The distinct values of a column.
Unique(d, c) == {d[i][c] : i \in DOMAIN d}

-----------------------------------------------------------------------------
(* Loading                                                                  *)

\* .dt.year and .dt.month of a timestamp.
YearOf(date) == (date \div 100) \div 12

MonthOfYear(date) == ((date \div 100) % 12) + 1

\* One parsed line of the file with the two derived columns attached.
Row(date, oid, region, cat, sub, sales, profit, discount) ==
    [c \in {"Order Date", "Order ID", "Region", "Category", "Sub Category",
            "Sales", "Profit", "Discount", "Year", "Month"} |->
        CASE c = "Order Date"   -> date
          [] c = "Order ID"     -> oid
          [] c = "Region"       -> region
          [] c = "Category"     -> cat
          [] c = "Sub Category" -> sub
          [] c = "Sales"        -> sales
          [] c = "Profit"       -> profit
          [] c = "Discount"     -> discount
          [] c = "Year"         -> YearOf(date)
          [] c = "Month"        -> MonthOfYear(date)]

\* Nine line items, one per (category, sub-category) pair over the first
\* three sub-categories, with pairwise different sales.
CatalogueRow(k) ==
    Row(IF k % 2 = 1 THEN 1015 ELSE 1120,
        OrderIDs[(k - 1) \div 2 + 1],
        Regions[(k % 2) + 1],
        Categories[(k - 1) \div 3 + 1],
        SubCategories[((k - 1) % 3) + 1],
        10 + k, k - 3, 5 * (k % 3))

Catalogue == [k \in 1..9 |-> CatalogueRow(k)]

\* Free rows: two new pairs with tied sales in one order, a refund (negative
\* sales) that cancels a sale, a free item (zero sales), a line that brings
\* a catalogue pair level with another, and a refund a year after the
\* catalogue's rows; dates on both ends of the windows and outside them.
Pool ==
    { Row(1301, "OD1", "East", "Snacks",  "Cookies",     2,  1, 10),
      Row(1301, "OD1", "West", "Bakery",  "Cookies",     2, -1,  0),
      Row(1301, "OD2", "West", "Snacks",  "Cookies",    -2,  1,  0),
      Row(1402, "OD3", "East", "Bakery",  "Biscuits",    0,  1, 20),
      Row(1001, "OD3", "West", "Bakery",  "Biscuits",    1,  0,  0),
      Row(2215, "OD4", "West", "Snacks",  "Chocolates", -3, -2,  0) }

RECURSIVE Tails(_)
Tails(n) ==
    IF n = 0 THEN {<<>>}
    ELSE Tails(n - 1) \cup {Append(t, r) : t \in {u \in Tails(n - 1) : Len(u) = n - 1}, r \in Pool}

\* The files the program may be started on.
Datasets == {head \o t : head \in {<<>>, Catalogue}, t \in Tails(MaxRows)}


-----------------------------------------------------------------------------
(* update_sales_dashboard                                                   *)

\* Dates the date picker can hand over; a cleared end arrives as None.
ControlDates == {1001, 1120, 1301, 2215, NaT}

Ge(a, b) == a # NaT /\ b # NaT /\ a >= b

Le(a, b) == a # NaT /\ b # NaT /\ a <= b

\* Slips of the date filter: an end date that is left out, and a window
\* between the two dates whichever order they come in.
InWindowEndExclusive(date, start_date, end_date) ==
    Ge(date, start_date) /\ date # NaT /\ end_date # NaT /\ date < end_date

InWindowEitherOrder(date, start_date, end_date) ==
    /\ Ge(date, Min(start_date, end_date))
    /\ Le(date, IF start_date >= end_date THEN start_date ELSE end_date)

\* The boolean mask of the date filter, for one row.
InWindow(date, start_date, end_date) ==
    Ge(date, start_date) /\ Le(date, end_date)

\* Calendar month of a timestamp, and the last day of a calendar month (the
\* label of its bucket); the years modelled are not leap years.
MonthOf(date) == date \div 100

MonthEnd(mo) ==
    LET m == (mo % 12) + 1
    IN  100 * mo + (IF m = 2 THEN 28 ELSE IF m \in {4, 6, 9, 11} THEN 30 ELSE 31)

SeqMin(s) == CHOOSE x \in {s[i] : i \in DOMAIN s} : \A i \in DOMAIN s : x <= s[i]

SeqMax(s) == CHOOSE x \in {s[i] : i \in DOMAIN s} : \A i \in DOMAIN s : x >= s[i]

\* A slip of the bucketing: the last month of the range is left out.
MonthlyDataLastMonthLost(f) ==
    IF f = <<>> THEN <<>>
    ELSE LET months == [i \in DOMAIN f |-> MonthOf(f[i]["Order Date"])]
             lo     == SeqMin(months)
             hi     == SeqMax(months)
             In(mo) == SelectSeq(f, LAMBDA r : MonthOf(r["Order Date"]) = mo)
         IN  [k \in 1..(hi - lo) |->
                [date   |-> MonthEnd(lo + k - 1),
                 Sales  |-> Sum(Column(In(lo + k - 1), "Sales")),
                 Profit |-> Sum(Column(In(lo + k - 1), "Profit"))]]

\* groupby(pd.Grouper(key='Order Date', freq='M')).agg(sum).reset_index():
\* one row per calendar month from the first to the last month present,
\* months without rows included with sums 0; no rows in, no rows out.
MonthlyData(f) ==
    IF f = <<>> THEN <<>>
    ELSE LET months == [i \in DOMAIN f |-> MonthOf(f[i]["Order Date"])]
             lo     == SeqMin(months)
             hi     == SeqMax(months)
             In(mo) == SelectSeq(f, LAMBDA r : MonthOf(r["Order Date"]) = mo)
         IN  [k \in 1..(hi - lo + 1) |->
                [date   |-> MonthEnd(lo + k - 1),
                 Sales  |-> Sum(Column(In(lo + k - 1), "Sales")),
                 Profit |-> Sum(Column(In(lo + k - 1), "Profit"))]]

\* A slip of the guard: >= for >.
ProfitMarginZeroDivides(total_profit, total_sales) ==
    IF total_sales >= 0 THEN Pct(total_profit, total_sales) ELSE Zero

\* (total_profit / total_sales) * 100 if total_sales > 0 else 0
ProfitMargin(total_profit, total_sales) ==
    IF total_sales > 0 THEN Pct(total_profit, total_sales) ELSE Zero

\* What the callback returns: the four numbers printed on the overview
\* cards, the two monthly line series and the scatter points.
SalesDashboard(d, start_date, end_date) ==
    LET filtered_df  == SelectSeq(d, LAMBDA r : InWindow(r["Order Date"], start_date, end_date))
        total_sales  == Sum(Column(filtered_df, "Sales"))
        total_profit == Sum(Column(filtered_df, "Profit"))
        monthly_data == MonthlyData(filtered_df)
    IN  [overview     |-> [total_sales       |-> total_sales,
                           total_profit      |-> total_profit,
                           avg_profit_margin |-> ProfitMargin(total_profit, total_sales),
                           order_count       |-> Cardinality(Unique(filtered_df, "Order ID"))],
         sales_fig    |-> [i \in DOMAIN monthly_data |->
                              <<monthly_data[i].date, monthly_data[i].Sales>>],
         profit_fig   |-> [i \in DOMAIN monthly_data |->
                              <<monthly_data[i].date, monthly_data[i].Profit>>],
         discount_fig |-> [i \in DOMAIN filtered_df |->
                              <<filtered_df[i]["Discount"], filtered_df[i]["Sales"],
                                filtered_df[i]["Category"]>>]]

update_sales_dashboard(start_date, end_date) ==
    /\ last' = [fn   |-> "update_sales_dashboard",
                args |-> <<start_date, end_date>>,
                out  |-> SalesDashboard(df, start_date, end_date)]
    /\ UNCHANGED <<df, df0>>

-----------------------------------------------------------------------------
(* update_region_analysis                                                   *)

Metrics == {"Sales", "Profit", "Margin"}

\* The sum of two quotients (NaN when either is not finite).
AddPct(a, b) ==
    IF a[2] = 0 \/ b[2] = 0 THEN <<0, 0>>
    ELSE LET n == a[1] * b[2] + b[1] * a[2]
             d == a[2] * b[2]
             g == GCD(Abs(n), d)
         IN  <<n \div g, d \div g>>

RECURSIVE SumPct(_)
SumPct(s) == IF s = <<>> THEN Zero ELSE AddPct(Head(s), SumPct(Tail(s)))

\* A slip of the aggregation: a Margin column computed per row and summed
\* with the other columns.
RegionDataMarginSummed(d) ==
    LET keys   == SelectSeq(Regions, LAMBDA g : g \in Unique(d, "Region"))
        Of(g)  == SelectSeq(d, LAMBDA r : r["Region"] = g)
    IN  [k \in DOMAIN keys |->
            [Region |-> keys[k],
             Sales  |-> Sum(Column(Of(keys[k]), "Sales")),
             Profit |-> Sum(Column(Of(keys[k]), "Profit")),
             Margin |-> SumPct([i \in DOMAIN Of(keys[k]) |->
                                  Pct(Of(keys[k])[i]["Profit"], Of(keys[k])[i]["Sales"])])]]

\* df.groupby('Region').agg(sum).reset_index() with the Margin column added.
RegionData(d) ==
    LET keys   == SelectSeq(Regions, LAMBDA g : g \in Unique(d, "Region"))
        Of(g)  == SelectSeq(d, LAMBDA r : r["Region"] = g)
    IN  [k \in DOMAIN keys |->
            LET sales  == Sum(Column(Of(keys[k]), "Sales"))
                profit == Sum(Column(Of(keys[k]), "Profit"))
            IN  [Region |-> keys[k], Sales |-> sales, Profit |-> profit,
                 Margin |-> Pct(profit, sales)]]

\* df.groupby(['Region', 'Year']).agg(sum).reset_index() with Margin added.
RegionalPerf(d) ==
    LET years  == Unique(d, "Year")
        ymin   == IF years = {} THEN 0 ELSE CHOOSE y \in years : \A z \in years : y <= z
        ymax   == IF years = {} THEN -1 ELSE CHOOSE y \in years : \A z \in years : y >= z
        ny     == ymax - ymin + 1
        all    == [i \in 1..(Len(Regions) * ny) |->
                      <<Regions[((i - 1) \div ny) + 1], ymin + ((i - 1) % ny)>>]
        Of(g)  == SelectSeq(d, LAMBDA r : r["Region"] = g[1] /\ r["Year"] = g[2])
        keys   == SelectSeq(all, LAMBDA g : Of(g) # <<>>)
    IN  [k \in DOMAIN keys |->
            LET sales  == Sum(Column(Of(keys[k]), "Sales"))
                profit == Sum(Column(Of(keys[k]), "Profit"))
            IN  [Region |-> keys[k][1], Year |-> keys[k][2], Sales |-> sales,
                 Profit |-> profit, Margin |-> Pct(profit, sales)]]

RegionAnalysis(d, metric) ==
    LET region_data   == RegionData(d)
        regional_perf == RegionalPerf(d)
    IN  [bar_fig     |-> [title  |-> IF metric = "Margin" THEN <<"Profit Margin (%) by Region">>
                                     ELSE <<"Total", metric, "by Region">>,
                          points |-> [i \in DOMAIN region_data |->
                                         <<region_data[i].Region, region_data[i][metric]>>]],
         scatter_fig |-> regional_perf]

update_region_analysis(metric) ==
    /\ last' = [fn   |-> "update_region_analysis",
                args |-> <<metric>>,
                out  |-> RegionAnalysis(df, metric)]
    /\ UNCHANGED <<df, df0>>

-----------------------------------------------------------------------------
(* update_category_analysis                                                 *)

\* The (Category, Sub Category) keys in the sorted order of a groupby.
AllPairs ==
    [i \in 1..(Len(Categories) * Len(SubCategories)) |->
        <<Categories[((i - 1) \div Len(SubCategories)) + 1],
          SubCategories[((i - 1) % Len(SubCategories)) + 1]>>]

\* filtered_df.groupby('Category').agg(sum).reset_index()
CategoryData(f) ==
    LET keys  == SelectSeq(Categories, LAMBDA c : c \in Unique(f, "Category"))
        Of(c) == SelectSeq(f, LAMBDA r : r["Category"] = c)
    IN  [k \in DOMAIN keys |->
            [Category |-> keys[k],
             Sales    |-> Sum(Column(Of(keys[k]), "Sales")),
             Profit   |-> Sum(Column(Of(keys[k]), "Profit"))]]

\* filtered_df.groupby(['Category', 'Sub Category']).agg(sum).reset_index()
SubcategoryData(f) ==
    LET Of(g) == SelectSeq(f, LAMBDA r : r["Category"] = g[1] /\ r["Sub Category"] = g[2])
        keys  == SelectSeq(AllPairs, LAMBDA g : Of(g) # <<>>)
    IN  [k \in DOMAIN keys |->
            [Category |-> keys[k][1], SubCategory |-> keys[k][2],
             Sales    |-> Sum(Column(Of(keys[k]), "Sales"))]]

\* The orders in which the rows with indices S can follow each other with
\* Sales never increasing.
RECURSIVE Descending(_, _)
Descending(rows, S) ==
    IF S = {} THEN {<<>>}
    ELSE LET top == {i \in S : \A j \in S : rows[i].Sales >= rows[j].Sales}
         IN  UNION {{<<rows[i]>> \o t : t \in Descending(rows, S \ {i})} : i \in top}

\* A slip of the sort: ascending.
RECURSIVE Ascending(_, _)
Ascending(rows, S) ==
    IF S = {} THEN {<<>>}
    ELSE LET low == {i \in S : \A j \in S : rows[i].Sales <= rows[j].Sales}
         IN  UNION {{<<rows[i]>> \o t : t \in Ascending(rows, S \ {i})} : i \in low}

SortValuesAscending(rows) == Ascending(rows, DOMAIN rows)

\* sort_values('Sales', ascending=False): the default kind is quicksort,
\* which is not stable, so rows with equal Sales come out in an order the
\* library does not fix: every descending order is a possible result.
SortValues(rows) == Descending(rows, DOMAIN rows)

\* A slip of the cut: the label slice [:n], which keeps row n as well.
HeadRowsInclusive(rows, n) == SubSeq(rows, 1, Min(n + 1, Len(rows)))

\* .head(n)
HeadRows(rows, n) == SubSeq(rows, 1, Min(n, Len(rows)))

\* A slip of the mask: inverted.
IsNotIn(value, categories) == value \notin categories

\* df['Category'].isin(categories), for one row.
IsIn(value, categories) == value \in categories

\* The rows the category filter keeps.
CategoryFilter(d, categories) ==
    SelectSeq(d, LAMBDA r : IsIn(r["Category"], categories))

\* The results the callback can return.
CategoryAnalysis(d, categories) ==
    LET filtered_df   == CategoryFilter(d, categories)
        category_data == CategoryData(filtered_df)
        treemap_data  == SubcategoryData(filtered_df)
    IN  {[category_fig    |-> category_data,
          subcategory_fig |-> HeadRows(sorted, TopN),
          treemap_fig     |-> treemap_data] :
            sorted \in SortValues(SubcategoryData(filtered_df))}

\* A slip of the callback: the filter assigned to the global frame.
update_category_analysis_global(categories) ==
    /\ \E result \in CategoryAnalysis(df, categories) :
           last' = [fn   |-> "update_category_analysis",
                    args |-> <<categories>>,
                    out  |-> result]
    /\ df' = CategoryFilter(df, categories)
    /\ UNCHANGED df0

update_category_analysis(categories) ==
    /\ \E result \in CategoryAnalysis(df, categories) :
           last' = [fn   |-> "update_category_analysis",
                    args |-> <<categories>>,
                    out  |-> result]
    /\ UNCHANGED <<df, df0>>

-----------------------------------------------------------------------------
(* display_page                                                             *)

\* Paths the router is called with; "None" stands for a missing pathname.
Pathnames == {"/", "/region", "/category", "/region/", "None"}

\* A slip of the router: a trailing slash accepted.
RouteLenient(pathname) ==
    IF pathname \in {"/region", "/region/"} THEN "region_layout"
    ELSE IF pathname \in {"/category", "/category/"} THEN "category_layout"
    ELSE "sales_layout"

Route(pathname) ==
    IF pathname = "/region" THEN "region_layout"
    ELSE IF pathname = "/category" THEN "category_layout"
    ELSE "sales_layout"

display_page(pathname) ==
    /\ last' = [fn   |-> "display_page",
                args |-> <<pathname>>,
                out  |-> Route(pathname)]
    /\ UNCHANGED <<df, df0>>

-----------------------------------------------------------------------------
(* The program                                                              *)

\* The frame is loaded once; df0 remembers it as loaded.
Init ==
    /\ df \in Datasets
    /\ df0 = df
    /\ last = [fn |-> "load", args |-> <<>>, out |-> <<>>]

Next ==
    \/ \E start_date \in ControlDates, end_date \in ControlDates :
           update_sales_dashboard(start_date, end_date)
    \/ \E metric \in Metrics : update_region_analysis(metric)
    \/ \E categories \in SUBSET {Categories[i] : i \in DOMAIN Categories} :
           update_category_analysis(categories)
    \/ \E pathname \in Pathnames : display_page(pathname)

Spec == Init /\ [][Next]_vars

-----------------------------------------------------------------------------
(* Properties.  Each is stated over the loaded frame df0 with sums taken    *)
(* over index sets, independently of the operators the callbacks use.       *)

RECURSIVE SumOver(_, _, _)
SumOver(d, I, c) ==
    IF I = {} THEN 0
    ELSE LET i == CHOOSE j \in I : TRUE
         IN  d[i][c] + SumOver(d, I \ {i}, c)

\* The k-th smallest index of I.
Nth(I, k) == CHOOSE i \in I : Cardinality({j \in I : j < i}) = k - 1

\* v is the exact value of p / s * 100 (inf, -inf or NaN when s = 0).
IsPct(v, p, s) ==
    IF s = 0 THEN v = <<Sign(p), 0>>
    ELSE v[2] > 0 /\ v[1] * s = 100 * p * v[2]

IsSales == last.fn = "update_sales_dashboard"

IsRegion == last.fn = "update_region_analysis"

IsCategory == last.fn = "update_category_analysis"

IsPage == last.fn = "display_page"

\* Indices of the rows of d with start <= Order Date <= end.
Window(d, start, end) ==
    IF start = NaT \/ end = NaT THEN {}
    ELSE {i \in DOMAIN d : start <= d[i]["Order Date"] /\ d[i]["Order Date"] <= end}

LastWindow == Window(df0, last.args[1], last.args[2])

\* C1: for a window of two dates the rows handed to the scatter plot are
\* exactly the rows with start <= Order Date <= end, in file order, and the
\* overview holds their summed Sales, their summed Profit and the number of
\* distinct Order IDs among them.
C1_WindowTotals ==
    (IsSales /\ last.args[1] # NaT /\ last.args[2] # NaT) =>
        LET F == LastWindow
            o == last.out
        IN  /\ Len(o.discount_fig) = Cardinality(F)
            /\ \A k \in DOMAIN o.discount_fig :
                  o.discount_fig[k] = <<df0[Nth(F, k)]["Discount"], df0[Nth(F, k)]["Sales"],
                                        df0[Nth(F, k)]["Category"]>>
            /\ o.overview.total_sales = SumOver(df0, F, "Sales")
            /\ o.overview.total_profit = SumOver(df0, F, "Profit")
            /\ o.overview.order_count = Cardinality({df0[i]["Order ID"] : i \in F})

\* A window that keeps some rows and drops others, has a row on its first
\* and a row on its last day, and two kept rows of one order.
C1_Witness ==
    /\ IsSales /\ last.args[1] # NaT /\ last.args[2] # NaT
    /\ LastWindow # {} /\ LastWindow # DOMAIN df0
    /\ \E i \in LastWindow : df0[i]["Order Date"] = last.args[1]
    /\ \E i \in LastWindow : df0[i]["Order Date"] = last.args[2]
    /\ last.out.overview.order_count < Cardinality(LastWindow)

\* C2: the monthly Sales (Profit) summed over all buckets is the window's
\* total Sales (Profit); the buckets are labelled with month ends in
\* strictly increasing order, every kept row's calendar month has exactly
\* one bucket, and a bucket holds the sums of the kept rows of its month.
C2_MonthlyConservation ==
    IsSales =>
        LET F  == LastWindow
            o  == last.out
            sf == o.sales_fig
            pf == o.profit_fig
            InMonth(mo) == {i \in F : df0[i]["Order Date"] \div 100 = mo}
        IN  /\ Sum([k \in DOMAIN sf |-> sf[k][2]]) = o.overview.total_sales
            /\ Sum([k \in DOMAIN pf |-> pf[k][2]]) = o.overview.total_profit
            /\ Sum([k \in DOMAIN sf |-> sf[k][2]]) = SumOver(df0, F, "Sales")
            /\ Sum([k \in DOMAIN pf |-> pf[k][2]]) = SumOver(df0, F, "Profit")
            /\ DOMAIN sf = DOMAIN pf
            /\ \A k \in DOMAIN sf : sf[k][1] = pf[k][1]
            /\ \A k \in DOMAIN sf : k > 1 => sf[k - 1][1] < sf[k][1]
            /\ \A i \in F :
                  Cardinality({k \in DOMAIN sf :
                                  sf[k][1] \div 100 = df0[i]["Order Date"] \div 100}) = 1
            /\ \A k \in DOMAIN sf :
                  /\ sf[k][2] = SumOver(df0, InMonth(sf[k][1] \div 100), "Sales")
                  /\ pf[k][2] = SumOver(df0, InMonth(sf[k][1] \div 100), "Profit")

\* Kept rows in three or more buckets, one of them a month without rows, and
\* two kept rows in one month.
C2_Witness ==
    /\ IsSales
    /\ Len(last.out.sales_fig) >= 3
    /\ \E k \in DOMAIN last.out.sales_fig :
          \A i \in LastWindow :
              df0[i]["Order Date"] \div 100 # last.out.sales_fig[k][1] \div 100
    /\ \E i, j \in LastWindow :
          i # j /\ df0[i]["Order Date"] \div 100 = df0[j]["Order Date"] \div 100
    /\ last.out.overview.total_sales # 0

\* C3 as stated: the margin is total profit / total sales * 100, and 0 when
\* the total sales are 0.
C3_MarginAsStated ==
    IsSales =>
        LET ts == SumOver(df0, LastWindow, "Sales")
            tp == SumOver(df0, LastWindow, "Profit")
            m  == last.out.overview.avg_profit_margin
        IN  /\ ts = 0 => m = <<0, 1>>
            /\ ts # 0 => IsPct(m, tp, ts)

\* C3 as amended: the margin is total profit / total sales * 100 when the
\* total sales are positive, and 0 when they are 0 or negative.
C3_MarginGuarded ==
    IsSales =>
        LET ts == SumOver(df0, LastWindow, "Sales")
            tp == SumOver(df0, LastWindow, "Profit")
            m  == last.out.overview.avg_profit_margin
        IN  /\ ts > 0 => IsPct(m, tp, ts)
            /\ ts <= 0 => m = <<0, 1>>

\* Kept rows whose Sales sum to 0 while their Profit does not.
C3_Witness ==
    /\ IsSales
    /\ LastWindow # {}
    /\ SumOver(df0, LastWindow, "Sales") = 0
    /\ SumOver(df0, LastWindow, "Profit") # 0
    /\ last.out.overview.avg_profit_margin = <<0, 1>>

\* The first and the last Order Date of a frame with rows.
FirstDate(d) == CHOOSE x \in Unique(d, "Order Date") : \A y \in Unique(d, "Order Date") : x <= y

LastDate(d) == CHOOSE x \in Unique(d, "Order Date") : \A y \in Unique(d, "Order Date") : x >= y

\* The window of the last call is empty: its start is after its end, or it
\* lies wholly before or wholly after the dates of the frame.
EmptyWindow ==
    /\ last.args[1] # NaT /\ last.args[2] # NaT
    /\ \/ last.args[1] > last.args[2]
       \/ df0 = <<>>
       \/ last.args[2] < FirstDate(df0)
       \/ last.args[1] > LastDate(df0)

\* C4: an empty window returns total sales 0, total profit 0, margin 0, order
\* count 0, no monthly bucket and no scatter point.
C4_EmptyWindow ==
    (IsSales /\ EmptyWindow) =>
        last.out = [overview     |-> [total_sales |-> 0, total_profit |-> 0,
                                      avg_profit_margin |-> <<0, 1>>, order_count |-> 0],
                    sales_fig    |-> <<>>,
                    profit_fig   |-> <<>>,
                    discount_fig |-> <<>>]

\* A start after the end, with rows of the frame dated between the two.
C4_Witness ==
    /\ IsSales /\ EmptyWindow
    /\ last.args[1] > last.args[2]
    /\ Window(df0, last.args[2], last.args[1]) # {}

\* C5: the bar chart has one bar per distinct Region of the whole frame,
\* whatever was selected on the other screens; for Sales and for Profit the
\* bars sum to the column's total over the whole frame; for Margin a bar is
\* its region's summed Profit / summed Sales * 100.
C5_RegionTotals ==
    IsRegion =>
        LET metric == last.args[1]
            pts    == last.out.bar_fig.points
            Of(g)  == {i \in DOMAIN df0 : df0[i]["Region"] = g}
        IN  /\ {pts[k][1] : k \in DOMAIN pts} = {df0[i]["Region"] : i \in DOMAIN df0}
            /\ Len(pts) = Cardinality({df0[i]["Region"] : i \in DOMAIN df0})
            /\ metric \in {"Sales", "Profit"} =>
                  /\ Sum([k \in DOMAIN pts |-> pts[k][2]]) = SumOver(df0, DOMAIN df0, metric)
                  /\ \A k \in DOMAIN pts : pts[k][2] = SumOver(df0, Of(pts[k][1]), metric)
            /\ metric = "Margin" =>
                  \A k \in DOMAIN pts :
                      IsPct(pts[k][2], SumOver(df0, Of(pts[k][1]), "Profit"),
                                       SumOver(df0, Of(pts[k][1]), "Sales"))

\* The Margin bars of two regions, each of rows with Sales other than 0, one
\* of them different from the sum of the margins of its region's rows.
C5_Witness ==
    /\ IsRegion
    /\ last.args[1] = "Margin"
    /\ Len(last.out.bar_fig.points) = 2
    /\ \A i \in DOMAIN df0 : df0[i]["Sales"] # 0
    /\ \E k \in DOMAIN last.out.bar_fig.points :
          LET rows == SelectSeq(df0, LAMBDA r : r["Region"] = last.out.bar_fig.points[k][1])
          IN  /\ Len(rows) >= 2
              /\ last.out.bar_fig.points[k][2]
                    # SumPct([i \in DOMAIN rows |-> Pct(rows[i]["Profit"], rows[i]["Sales"])])

\* The rows of a grouped frame as a set of <<Category, Sales>>.
CategoryRows(t) == {<<t[k].Category, t[k].Sales>> : k \in DOMAIN t}

\* The rows of a grouped frame as a set of <<Category, Sub Category, Sales>>.
PairRows(t) == {<<t[k].Category, t[k].SubCategory, t[k].Sales>> : k \in DOMAIN t}

\* Indices of the rows of d whose Category is among cs.
Selected(d, cs) == {i \in DOMAIN d : d[i]["Category"] \in cs}

\* The sums per category, and per (category, sub-category), of the rows I.
SalesByCategory(d, I) ==
    {<<d[i]["Category"],
       SumOver(d, {j \in I : d[j]["Category"] = d[i]["Category"]}, "Sales")>> : i \in I}

SalesByPair(d, I) ==
    {<<d[i]["Category"], d[i]["Sub Category"],
       SumOver(d, {j \in I : /\ d[j]["Category"] = d[i]["Category"]
                             /\ d[j]["Sub Category"] = d[i]["Sub Category"]}, "Sales")>> : i \in I}

\* C6: with every category of the frame selected the per-category and the
\* per-(category, sub-category) sales are those of the whole frame; with no
\* category selected the three series are empty.
C6_FullAndEmptySelection ==
    IsCategory =>
        LET o == last.out
        IN  /\ last.args[1] = {df0[i]["Category"] : i \in DOMAIN df0} =>
                  /\ CategoryRows(o.category_fig) = SalesByCategory(df0, DOMAIN df0)
                  /\ Len(o.category_fig) = Cardinality(SalesByCategory(df0, DOMAIN df0))
                  /\ PairRows(o.treemap_fig) = SalesByPair(df0, DOMAIN df0)
                  /\ Len(o.treemap_fig) = Cardinality(SalesByPair(df0, DOMAIN df0))
                  /\ PairRows(o.subcategory_fig) \subseteq SalesByPair(df0, DOMAIN df0)
            /\ last.args[1] = {} =>
                  /\ o.category_fig = <<>>
                  /\ o.subcategory_fig = <<>>
                  /\ o.treemap_fig = <<>>

\* The full selection on a frame with all three categories.
C6_Witness ==
    /\ IsCategory
    /\ last.args[1] = {df0[i]["Category"] : i \in DOMAIN df0}
    /\ Len(last.out.category_fig) = 3
    /\ Len(last.out.treemap_fig) > Len(last.out.category_fig)

\* The empty selection on a frame with rows.
C6_WitnessEmpty ==
    /\ IsCategory
    /\ last.args[1] = {}
    /\ df0 # <<>>

\* C7: the top-10 series has min(10, number of groups) rows, each a
\* different (category, sub-category) group of the selected rows with its
\* summed Sales, in non-increasing order of Sales, and no group left out has
\* more Sales than one that is in.
C7_TopTen ==
    IsCategory =>
        LET G == SalesByPair(df0, Selected(df0, last.args[1]))
            T == last.out.subcategory_fig
        IN  /\ Len(T) <= 10
            /\ Len(T) = IF Cardinality(G) < 10 THEN Cardinality(G) ELSE 10
            /\ PairRows(T) \subseteq G
            /\ Cardinality(PairRows(T)) = Len(T)
            /\ \A k \in DOMAIN T : k > 1 => T[k - 1].Sales >= T[k].Sales
            /\ \A g \in G \ PairRows(T) : \A k \in DOMAIN T : g[3] <= T[k].Sales

\* More than ten groups, so that one is cut off.
C7_Witness ==
    /\ IsCategory
    /\ Cardinality(SalesByPair(df0, Selected(df0, last.args[1]))) > 10
    /\ Len(last.out.subcategory_fig) = 10

\* The rows of a grouped frame sorted by Sales, largest first, rows of equal
\* Sales in the order they have in the frame.
StableDescending(rows) ==
    LET Pos(i) == Cardinality({j \in DOMAIN rows : rows[j].Sales > rows[i].Sales})
                  + Cardinality({j \in DOMAIN rows : j <= i /\ rows[j].Sales = rows[i].Sales})
    IN  [k \in DOMAIN rows |-> rows[CHOOSE i \in DOMAIN rows : Pos(i) = k]]

\* The top 10 of a stable sort of the groups of the selected rows.
StableTopTen ==
    LET g == SubcategoryData(CategoryFilter(df0, last.args[1]))
        s == StableDescending(g)
    IN  SubSeq(s, 1, IF Len(s) < 10 THEN Len(s) ELSE 10)

\* C10 as stated: groups of equal Sales keep their grouping order, so the
\* top-10 series is the top 10 of a stable descending sort.
C10_StableAsStated ==
    IsCategory => last.out.subcategory_fig = StableTopTen

\* C10 as amended: the Sales of the top-10 series are those of a stable
\* descending sort, row by row, and a row differs from the stable sort's
\* only by being another group of the same Sales; which of the groups of
\* equal Sales come first, and which are kept at the cut, is not fixed.
C10_TiesUnordered ==
    IsCategory =>
        LET T == last.out.subcategory_fig
            G == SalesByPair(df0, Selected(df0, last.args[1]))
        IN  /\ Len(T) = Len(StableTopTen)
            /\ \A k \in DOMAIN T :
                  /\ T[k].Sales = StableTopTen[k].Sales
                  /\ <<T[k].Category, T[k].SubCategory, T[k].Sales>> \in G
            /\ \A g \in G :
                  (\A h \in G : h # g => h[3] # g[3]) =>
                      (g \in PairRows(T) <=> g \in PairRows(StableTopTen))

\* Two groups of equal Sales at the cut of 10, the later one in grouping
\* order kept and the earlier one dropped.
C10_Witness ==
    /\ IsCategory
    /\ Len(last.out.subcategory_fig) = 10
    /\ PairRows(last.out.subcategory_fig) # PairRows(StableTopTen)

\* C8: the frame is the frame as loaded, and whatever was called before, the
\* last call returned what it returns on the frame as loaded for its own
\* control values.
C8_ReadOnly ==
    /\ df = df0
    /\ IsSales => last.out = SalesDashboard(df0, last.args[1], last.args[2])
    /\ IsRegion => last.out = RegionAnalysis(df0, last.args[1])
    /\ IsCategory => last.out \in CategoryAnalysis(df0, last.args[1])
    /\ IsPage => last.out = Route(last.args[1])

\* A regional call on a frame with rows of both regions and of two years.
C8_Witness ==
    /\ IsRegion
    /\ df = df0
    /\ Len(last.out.bar_fig.points) = 2
    /\ Len(last.out.scatter_fig) > 2

\* C9: the regional screen exactly for '/region', the category screen
\* exactly for '/category', the overview for every other pathname.
C9_Routing ==
    IsPage =>
        /\ last.out \in {"region_layout", "category_layout", "sales_layout"}
        /\ last.out = "region_layout" <=> last.args[1] = "/region"
        /\ last.out = "category_layout" <=> last.args[1] = "/category"
        /\ last.args[1] \notin {"/region", "/category"} => last.out = "sales_layout"

\* A missing pathname is answered with the overview.
C9_Witness ==
    /\ IsPage
    /\ last.args[1] = "None"
    /\ last.out = "sales_layout"

=============================================================================
